---- MODULE Spec2Model ----
(***************************************************************************)
(* Brand-name normalisation for search (process_brands.py).                *)
(* A Python str is modelled as a sequence of characters; a character is a  *)
(* one-character string, or the name of its code point when it is not      *)
(* ASCII.  One call of process_brand_for_search is a chain of steps, one   *)
(* per statement block of the function.                                    *)
(***************************************************************************)
EXTENDS Integers, Sequences, FiniteSets, TLC

\* ------------------------------------------------------------------------
\* Characters
\* ------------------------------------------------------------------------
ASCII_LOWER ==
    <<"a","b","c","d","e","f","g","h","i","j","k","l","m",
      "n","o","p","q","r","s","t","u","v","w","x","y","z">>

ASCII_UPPER ==
    <<"A","B","C","D","E","F","G","H","I","J","K","L","M",
      "N","O","P","Q","R","S","T","U","V","W","X","Y","Z">>

\* [a-z]
AZ == { ASCII_LOWER[i] : i \in 1..26 }

\* [A-Z]
UpperAZ == { ASCII_UPPER[i] : i \in 1..26 }

\* [0-9]
D09 == {"0","1","2","3","4","5","6","7","8","9"}

\* U+00F6 LATIN SMALL LETTER O WITH DIAERESIS, and its capital U+00D6
O_DIAERESIS == "U+00F6"

CAP_O_DIAERESIS == "U+00D6"

\* U+0308 COMBINING DIAERESIS
COMBINING_DIAERESIS == "U+0308"

\* U+00F8 LATIN SMALL LETTER O WITH STROKE (no decomposition), capital U+00D8
O_STROKE == "U+00F8"

CAP_O_STROKE == "U+00D8"

\* U+2131 SCRIPT CAPITAL F: category Lu, no lowercase mapping,
\* compatibility decomposition to "F"
SCRIPT_CAPITAL_F == "U+2131"

\* str.lower() on one character
char_lower(c) ==
    IF c \in UpperAZ THEN ASCII_LOWER[CHOOSE i \in 1..26 : ASCII_UPPER[i] = c]
    ELSE IF c = CAP_O_DIAERESIS THEN O_DIAERESIS
    ELSE IF c = CAP_O_STROKE THEN O_STROKE
    ELSE c

\* str.upper() on one character
char_upper(c) ==
    IF c \in AZ THEN ASCII_UPPER[CHOOSE i \in 1..26 : ASCII_LOWER[i] = c]
    ELSE IF c = O_DIAERESIS THEN CAP_O_DIAERESIS
    ELSE IF c = O_STROKE THEN CAP_O_STROKE
    ELSE c

\* unicodedata.normalize('NFKD', c) for one character
char_nfkd(c) ==
    IF c = O_DIAERESIS THEN <<"o", COMBINING_DIAERESIS>>
    ELSE IF c = CAP_O_DIAERESIS THEN <<"O", COMBINING_DIAERESIS>>
    ELSE IF c = SCRIPT_CAPITAL_F THEN <<"F">>
    ELSE <<c>>

\* unicodedata.combining(c) is non-zero
combining(c) == c = COMBINING_DIAERESIS

\* \s of the re module and the separators of str.split()
IsSpace(c) == c \in {" ", "\t"}

\* \w of the re module: alphanumeric characters and the underscore
IsWord(c) ==
    \/ c \in AZ \cup UpperAZ \cup D09
    \/ c \in {O_DIAERESIS, CAP_O_DIAERESIS, O_STROKE, CAP_O_STROKE, SCRIPT_CAPITAL_F}
    \/ c = "_"

\* ------------------------------------------------------------------------
\* The fixed lexicons
\* ------------------------------------------------------------------------
common_terms ==
    { <<"o","r","i","g","i","n","a","l">>,
      <<"c","o","l","l","e","c","t","i","o","n">>,
      <<"d","e","s","i","g","n">>,
      <<"l","i","m","i","t","e","d">>,
      <<"e","d","i","t","i","o","n">>,
      <<"w","a","t","c","h","e","s">>,
      <<"w","a","t","c","h">>,
      <<"c","l","a","s","s","i","c">>,
      <<"v","i","n","t","a","g","e">>,
      <<"s","e","r","i","e","s">>,
      <<"t","y","p","e">>,
      <<"p","r","o","f","e","s","s","i","o","n","a","l">>,
      <<"c","h","r","o","n","o","g","r","a","p","h">>,
      <<"c","h","r","o","n","o","g","r","a","p","h","e">>,
      <<"a","u","t","o","m","a","t","i","c">>,
      <<"m","a","n","u","f","a","c","t","u","r","e">>,
      <<"g","m","t">>,
      <<"q","u","a","r","t","z">>,
      <<"m","e","c","h","a","n","i","c","a","l">>,
      <<"r","e","f","e","r","e","n","c","e">>,
      <<"r","e","f">>,
      <<"m","o","d","e","l">>,
      <<"s","p","e","c","i","a","l">>,
      <<"f","o","r">>,
      <<"t","h","e">>,
      <<"a","n","d">>,
      <<"o","f">> }

preserved_terms ==
    { <<"s","p","o","r","t">>,
      <<"s","e","a","m","a","s","t","e","r">>,
      <<"s","u","b","m","a","r","i","n","e","r">>,
      <<"n","a","v","i","t","i","m","e","r">>,
      <<"r","o","y","a","l">>,
      <<"o","a","k">>,
      <<"d","a","t","o","g","r","a","p","h">>,
      <<"m","a","s","t","e","r">>,
      <<"c","o","n","t","r","o","l">>,
      <<"p","a","t","r","i","m","o","n","y">>,
      <<"m","o","n","a","c","o">>,
      <<"n","a","u","t","i","l","u","s">>,
      <<"d","a","y","t","o","n","a">>,
      <<"s","p","e","e","d","m","a","s","t","e","r">>,
      <<"c","a","l","i","b","r","e">>,
      <<"c","a","l">>,
      <<"e","l","e","g","a","n","t","e">>,
      <<"l","a","u","r","e","a","t","o">>,
      <<"c","o","s","m","o","g","r","a","p","h">>,
      <<"m","o","o","n","w","a","t","c","h">>,
      <<"p","h","i","l","i","p","p","e">>,
      <<"p","a","t","e","k">>,
      <<"b","r","e","i","t","l","i","n","g">>,
      <<"r","o","l","e","x">>,
      <<"o","m","e","g","a">>,
      <<"t","a","g">>,
      <<"h","e","u","e","r">>,
      <<"i","w","c">>,
      <<"p","i","g","u","e","t">>,
      <<"a","u","d","e","m","a","r","s">>,
      <<"l","a","n","g","e">>,
      <<"s","o","h","n","e">> }

\* ------------------------------------------------------------------------
\* String operations
\* ------------------------------------------------------------------------
RECURSIVE Flatten(_)
Flatten(ss) == IF ss = <<>> THEN <<>> ELSE Head(ss) \o Flatten(Tail(ss))

\* str.lower()
str_lower(s) == [i \in 1..Len(s) |-> char_lower(s[i])]

\* s.upper()
str_upper(s) == [i \in 1..Len(s) |-> char_upper(s[i])]

\* unicodedata.normalize('NFKD', result)
nfkd(s) == Flatten([i \in 1..Len(s) |-> char_nfkd(s[i])])

NotCombining(c) == ~combining(c)

\* ''.join([c for c in result if not unicodedata.combining(c)])
strip_combining(s) == SelectSeq(s, NotCombining)

\* Last index of the maximal run of characters of class C that starts at i
\* (i-1 when s[i] is not in C)
RECURSIVE RunEnd(_,_,_)
RunEnd(s, i, C) ==
    IF i <= Len(s) /\ s[i] \in C THEN RunEnd(s, i+1, C) ELSE i-1

\* The second alternative written without its closing dot: ([a-z]\.)([a-z])
model_pattern_match_open(s, i) ==
    LET j == RunEnd(s, i, AZ) IN
    IF j >= i /\ j+2 <= Len(s) /\ s[j+1] = "." /\ s[j+2] \in D09
    THEN RunEnd(s, j+2, D09)
    ELSE IF /\ i+2 <= Len(s)
            /\ s[i] \in AZ /\ s[i+1] = "."
            /\ s[i+2] \in AZ
         THEN i+2
         ELSE 0

\* End of the match of model_pattern that starts at i, 0 when there is none:
\* ([a-z]+\.)([0-9]+), else ([a-z]\.)([a-z]\.)
model_pattern_match(s, i) ==
    LET j == RunEnd(s, i, AZ) IN
    IF j >= i /\ j+2 <= Len(s) /\ s[j+1] = "." /\ s[j+2] \in D09
    THEN RunEnd(s, j+2, D09)
    ELSE IF /\ i+3 <= Len(s)
            /\ s[i] \in AZ /\ s[i+1] = "."
            /\ s[i+2] \in AZ /\ s[i+3] = "."
         THEN i+3
         ELSE 0

NotDot(c) == c # "."

\* model_pattern.sub(lambda m: m.group(0).replace('.', ''), result), from i on:
\* leftmost matches, each replaced by its text without dots
RECURSIVE model_pattern_sub_from(_,_)
model_pattern_sub_from(s, i) ==
    IF i > Len(s) THEN <<>>
    ELSE LET e == model_pattern_match(s, i) IN
         IF e = 0 THEN <<s[i]>> \o model_pattern_sub_from(s, i+1)
         ELSE SelectSeq(SubSeq(s, i, e), NotDot) \o model_pattern_sub_from(s, e+1)

model_pattern_sub(s) == model_pattern_sub_from(s, 1)

\* Positions of the dots that line 39 deletes: the dots of the matches
RECURSIVE deleted_dots_from(_,_)
deleted_dots_from(s, i) ==
    IF i > Len(s) THEN {}
    ELSE LET e == model_pattern_match(s, i) IN
         IF e = 0 THEN deleted_dots_from(s, i+1)
         ELSE { k \in i..e : s[k] = "." } \cup deleted_dots_from(s, e+1)

deleted_dots(s) == deleted_dots_from(s, 1)

WordOrSpace(c) == IsWord(c) \/ IsSpace(c)

\* Punctuation deleted instead of replaced: re.sub(r'[^\w\s]', '', result)
punct_deleted(s) == SelectSeq(s, WordOrSpace)

\* re.sub(r'[^\w\s]', ' ', result)
punct_to_space(s) ==
    [i \in 1..Len(s) |-> IF IsWord(s[i]) \/ IsSpace(s[i]) THEN s[i] ELSE " "]

\* \b at the position before s[i] (i = Len(s)+1: end of the string)
WordBoundary(s, i) ==
    LET before == i > 1 /\ IsWord(s[i-1])
        after  == i <= Len(s) /\ IsWord(s[i])
    IN before # after

\* End of the match of \b[a-z]*\d{least,}[a-z0-9]*\b that starts at i, 0 when
\* there is none.  The three quantifiers are greedy and backtrack in order,
\* so the match is the first success with k letters, m digits, n trailing
\* characters, k, m, n tried from the largest down.
model_number_match_least(s, i, least) ==
    IF ~WordBoundary(s, i) THEN 0
    ELSE
      LET K == RunEnd(s, i, AZ) - i + 1
          M(k) == RunEnd(s, i+k, D09) - (i+k) + 1
          N(k, m) == RunEnd(s, i+k+m, AZ \cup D09) - (i+k+m) + 1
          ends(k, m) == { n \in 0..N(k, m) : WordBoundary(s, i+k+m+n) }
          ok == UNION { UNION { { <<k, m, n>> : n \in ends(k, m) }
                                : m \in least..M(k) }
                        : k \in 0..K }
          better(a, b) ==
              \/ a[1] > b[1]
              \/ a[1] = b[1] /\ a[2] > b[2]
              \/ a[1] = b[1] /\ a[2] = b[2] /\ a[3] >= b[3]
      IN IF ok = {} THEN 0
         ELSE LET f == CHOOSE a \in ok : \A b \in ok : better(a, b)
              IN i + f[1] + f[2] + f[3] - 1

\* The pattern of line 63, \d+ : at least one digit
model_number_match(s, i) == model_number_match_least(s, i, 1)

\* The pattern with \d* for \d+: every run of [a-z0-9] between word
\* boundaries is found (the empty matches are of no account)
RECURSIVE findall_any_digits_from(_,_)
findall_any_digits_from(s, i) ==
    IF i > Len(s) THEN {}
    ELSE LET e == model_number_match_least(s, i, 0) IN
         IF e < i THEN findall_any_digits_from(s, i+1)
         ELSE {SubSeq(s, i, e)} \cup findall_any_digits_from(s, e+1)

findall_model_numbers_any_digits(s) == findall_any_digits_from(s, 1)

\* set(re.findall(r'\b[a-z]*\d+[a-z0-9]*\b', result)), scanning from i on
RECURSIVE findall_model_numbers_from(_,_)
findall_model_numbers_from(s, i) ==
    IF i > Len(s) THEN {}
    ELSE LET e == model_number_match(s, i) IN
         IF e = 0 THEN findall_model_numbers_from(s, i+1)
         ELSE {SubSeq(s, i, e)} \cup findall_model_numbers_from(s, e+1)

findall_model_numbers(s) == findall_model_numbers_from(s, 1)

\* First index at or after i whose character is (white = TRUE) or is not
\* (white = FALSE) whitespace; Len(s)+1 when there is none
RECURSIVE Skip(_,_,_)
Skip(s, i, white) ==
    IF i <= Len(s) /\ IsSpace(s[i]) # white THEN Skip(s, i+1, white) ELSE i

\* result.split(): the maximal runs of non-whitespace, in order
RECURSIVE str_split_from(_,_)
str_split_from(s, i) ==
    LET b == Skip(s, i, FALSE) IN
    IF b > Len(s) THEN <<>>
    ELSE LET e == Skip(s, b, TRUE) IN
         <<SubSeq(s, b, e-1)>> \o str_split_from(s, e)

str_split(s) == str_split_from(s, 1)

\* The test of lines 71-73 on one word
keep_word(word, numbers) ==
    LET word_lower == str_lower(word) IN
    \/ word_lower \notin common_terms
    \/ word_lower \in preserved_terms
    \/ word_lower \in numbers

\* The loop of lines 66-74
RECURSIVE filter_words(_,_)
filter_words(ws, numbers) ==
    IF ws = <<>> THEN <<>>
    ELSE (IF keep_word(Head(ws), numbers) THEN <<Head(ws)>> ELSE <<>>)
         \o filter_words(Tail(ws), numbers)

\* ' '.join(filtered_words)
RECURSIVE str_join(_)
str_join(ws) ==
    IF ws = <<>> THEN <<>>
    ELSE IF Len(ws) = 1 THEN Head(ws)
    ELSE Head(ws) \o <<" ">> \o str_join(Tail(ws))

\* re.sub(r'\s+', ' ', s), from i on
RECURSIVE collapse_from(_,_)
collapse_from(s, i) ==
    IF i > Len(s) THEN <<>>
    ELSE IF IsSpace(s[i]) THEN <<" ">> \o collapse_from(s, Skip(s, i, FALSE))
    ELSE <<s[i]>> \o collapse_from(s, i+1)

\* s.strip()
str_strip(s) ==
    LET b == Skip(s, 1, FALSE)
        nonspace == { i \in 1..Len(s) : ~IsSpace(s[i]) }
    IN IF nonspace = {} THEN <<>>
       ELSE SubSeq(s, b, CHOOSE i \in nonspace : \A j \in nonspace : j <= i)

\* re.sub(r'\s*', ' ', s), from i on: the empty match before every character
\* and at the end is replaced too
RECURSIVE collapse_star_from(_,_)
collapse_star_from(s, i) ==
    IF i > Len(s) THEN <<" ">>
    ELSE IF IsSpace(s[i]) THEN <<" ">> \o collapse_star_from(s, Skip(s, i, FALSE))
    ELSE <<" ", s[i]>> \o collapse_star_from(s, i+1)

\* \s* written for \s+
collapse_whitespace_star(s) == str_strip(collapse_star_from(s, 1))

\* re.sub(r'\s+', ' ', result).strip()
collapse_whitespace(s) == str_strip(collapse_from(s, 1))

IsAlnumLower(c) == c \in AZ \cup D09

\* [^\w] written for [^a-z0-9]
strip_non_word(s) == SelectSeq(s, IsWord)

IsAlnumLowerOrBlank(c) == c \in AZ \cup D09 \cup {" "}

\* [^a-z0-9 ] written for [^a-z0-9]
strip_non_alnum_blank(s) == SelectSeq(s, IsAlnumLowerOrBlank)

\* re.sub(r'[^a-z0-9]', '', result)
strip_non_alnum(s) == SelectSeq(s, IsAlnumLower)

\* ------------------------------------------------------------------------
\* The function as a whole
\* ------------------------------------------------------------------------
\* Line 30 left out
lower_missing(s) == s

\* Line 30: result = brand_name.lower()
lower_brand_name(s) == str_lower(s)

\* Lines 30-42: the string handed to the token filter
prepare(s) ==
    punct_to_space(model_pattern_sub(strip_combining(nfkd(lower_brand_name(s)))))

\* Lines 63-79 applied to the result of line 42
filter_stage(s) ==
    collapse_whitespace(str_join(filter_words(str_split(s), findall_model_numbers(s))))

\* Lines 82-85
finalize(s, m) == IF m = "alphanumeric" THEN strip_non_alnum(s) ELSE s

\* The isinstance test left out: if not brand_name
invalid_input_falsy(b) == ~b.truthy

\* if not brand_name or not isinstance(brand_name, str)
invalid_input(b) == ~b.truthy \/ b.type # "str"

\* process_brand_for_search(brand_name, mode)
process_brand_for_search(b, m) ==
    IF invalid_input(b) THEN <<>>
    ELSE finalize(filter_stage(prepare(b.val)), m)

\* A str argument
Str(s) == [type |-> "str", truthy |-> Len(s) > 0, val |-> s]

\* ------------------------------------------------------------------------
\* Inputs
\* ------------------------------------------------------------------------
MaxLen == 3

MaxLenAbbrev == 6

MaxBefore == 4

MaxAfter == 2

\* All strings over A of length at most n
Strings(A, n) == UNION { [1..k -> A] : k \in 0..n }

\* Arguments that are not str: None, 0, 5, [], ["a"]
NonStrings ==
    { [type |-> "NoneType", truthy |-> FALSE, val |-> <<>>],
      [type |-> "int",      truthy |-> FALSE, val |-> <<>>],
      [type |-> "int",      truthy |-> TRUE,  val |-> <<>>],
      [type |-> "list",     truthy |-> FALSE, val |-> <<>>],
      [type |-> "list",     truthy |-> TRUE,  val |-> <<>>] }

Alphabet ==
    { "o", "f", "O", "2", ".", "-", " ", "\t", "_",
      O_DIAERESIS, O_STROKE, SCRIPT_CAPITAL_F }

AbbrevAlphabet == { "o", "F", ".", "2" }

BeforeAlphabet == { "a", ".", " " }

AfterAlphabet == { "a", ".", "2", " " }

Oak == { <<"o","a","k">>, <<"O","a","k">>, <<"O","A","K">> }

Modes == { "standard", "alphanumeric", "other" }

\* ------------------------------------------------------------------------
\* One call, step by step
\* ------------------------------------------------------------------------
VARIABLES brand_name, mode, pc, result, model_numbers, words, filtered_words, ret

vars == <<brand_name, mode, pc, result, model_numbers, words, filtered_words, ret>>

Locals ==
    /\ pc = "start"
    /\ result = <<>>
    /\ model_numbers = {}
    /\ words = <<>>
    /\ filtered_words = <<>>
    /\ ret = <<>>

Init ==
    /\ brand_name \in NonStrings \cup { Str(s) : s \in Strings(Alphabet, MaxLen) }
    /\ mode \in Modes
    /\ Locals

InitAbbrev ==
    /\ brand_name \in NonStrings \cup { Str(s) : s \in Strings(AbbrevAlphabet, MaxLenAbbrev) }
    /\ mode \in {"standard", "alphanumeric"}
    /\ Locals

InitPreserved ==
    /\ brand_name \in NonStrings \cup
          { Str(b \o w \o a) : b \in Strings(BeforeAlphabet, MaxBefore),
                               w \in Oak,
                               a \in Strings(AfterAlphabet, MaxAfter) }
    /\ mode \in {"standard", "alphanumeric"}
    /\ Locals

\* Lines 26-27
RejectInvalid ==
    /\ pc = "start"
    /\ invalid_input(brand_name)
    /\ ret' = <<>>
    /\ pc' = "done"
    /\ UNCHANGED <<brand_name, mode, result, model_numbers, words, filtered_words>>

\* Line 30
Lowercase ==
    /\ pc = "start"
    /\ ~invalid_input(brand_name)
    /\ result' = lower_brand_name(brand_name.val)
    /\ pc' = "accents"
    /\ UNCHANGED <<brand_name, mode, model_numbers, words, filtered_words, ret>>

\* Lines 33-34
RemoveAccents ==
    /\ pc = "accents"
    /\ result' = strip_combining(nfkd(result))
    /\ pc' = "abbrev"
    /\ UNCHANGED <<brand_name, mode, model_numbers, words, filtered_words, ret>>

\* Lines 38-39
CollapseAbbreviations ==
    /\ pc = "abbrev"
    /\ result' = model_pattern_sub(result)
    /\ pc' = "punct"
    /\ UNCHANGED <<brand_name, mode, model_numbers, words, filtered_words, ret>>

\* Line 42
PunctuationToSpace ==
    /\ pc = "punct"
    /\ result' = punct_to_space(result)
    /\ pc' = "filter"
    /\ UNCHANGED <<brand_name, mode, model_numbers, words, filtered_words, ret>>

\* Lines 63-76
FilterWords ==
    /\ pc = "filter"
    /\ model_numbers' = findall_model_numbers(result)
    /\ words' = str_split(result)
    /\ filtered_words' = filter_words(words', model_numbers')
    /\ result' = str_join(filtered_words')
    /\ pc' = "whitespace"
    /\ UNCHANGED <<brand_name, mode, ret>>

\* Line 79
CollapseWhitespace ==
    /\ pc = "whitespace"
    /\ result' = collapse_whitespace(result)
    /\ pc' = "mode"
    /\ UNCHANGED <<brand_name, mode, model_numbers, words, filtered_words, ret>>

\* Lines 82-85, mode == 'alphanumeric'
ReturnAlphanumeric ==
    /\ pc = "mode"
    /\ mode = "alphanumeric"
    /\ result' = strip_non_alnum(result)
    /\ ret' = result'
    /\ pc' = "done"
    /\ UNCHANGED <<brand_name, mode, model_numbers, words, filtered_words>>

\* Lines 82 and 85, any other mode
ReturnStandard ==
    /\ pc = "mode"
    /\ mode # "alphanumeric"
    /\ ret' = result
    /\ pc' = "done"
    /\ UNCHANGED <<brand_name, mode, result, model_numbers, words, filtered_words>>

Next ==
    \/ RejectInvalid
    \/ Lowercase
    \/ RemoveAccents
    \/ CollapseAbbreviations
    \/ PunctuationToSpace
    \/ FilterWords
    \/ CollapseWhitespace
    \/ ReturnAlphanumeric
    \/ ReturnStandard

Spec == Init /\ [][Next]_vars

SpecAbbrev == InitAbbrev /\ [][Next]_vars

SpecPreserved == InitPreserved /\ [][Next]_vars


\* ------------------------------------------------------------------------
\* Properties
\* ------------------------------------------------------------------------
Returned == pc = "done"

IsString == brand_name.type = "str"

Range(f) == { f[i] : i \in DOMAIN f }

\* Each step computes what the function as a whole computes
StepsAgree == Returned => ret = process_brand_for_search(brand_name, mode)

AbsentEmptyOrNotText == brand_name.type # "str" \/ brand_name.val = <<>>

\* C1.  An argument that is None, the empty string or not a str makes the
\* call return "" for every mode, and no stage of the pipeline runs: the
\* call goes from its entry straight to the return and assigns no local.
InvalidInputReturnsEmpty ==
    AbsentEmptyOrNotText =>
        /\ pc \in {"start", "done"}
        /\ result = <<>> /\ words = <<>> /\ filtered_words = <<>>
        /\ model_numbers = {}
        /\ Returned => ret = <<>>

InvalidInputReturned ==
    /\ Returned
    /\ brand_name.type = "int" /\ brand_name.truthy
    /\ mode = "alphanumeric"
    /\ ret = <<>>

\* C2.  In mode 'alphanumeric' the returned string has no character outside
\* [a-z0-9]: no space, underscore, dot, uppercase or non-ASCII letter.
AlphanumericOnlyLowerAlnum ==
    (Returned /\ IsString /\ mode = "alphanumeric") =>
        \A i \in 1..Len(ret) : ret[i] \in AZ \cup D09

\* An alphanumeric call that returned something, from words that held an
\* underscore, an uppercase letter or a non-ASCII letter
AlphanumericStrippedSurvivor ==
    /\ Returned /\ IsString /\ mode = "alphanumeric"
    /\ ret # <<>>
    /\ \E w \in Range(filtered_words) :
          \E i \in 1..Len(w) : w[i] \in {"_", "F", O_STROKE}

\* C3.  In mode 'standard' the returned string has no leading, trailing or
\* doubled whitespace, and its only whitespace is the single space between
\* two tokens.
StandardWhitespaceNormal ==
    (Returned /\ IsString /\ mode = "standard") =>
        \A i \in 1..Len(ret) :
            IsSpace(ret[i]) =>
                /\ ret[i] = " "
                /\ 1 < i /\ i < Len(ret)
                /\ ~IsSpace(ret[i-1]) /\ ~IsSpace(ret[i+1])

\* A standard call that returned two tokens from an input with a tab
StandardTwoTokensReturned ==
    /\ Returned /\ IsString /\ mode = "standard"
    /\ Len(filtered_words) = 2
    /\ \E i \in 1..Len(brand_name.val) : brand_name.val[i] = "\t"
    /\ \E i \in 1..Len(ret) : ret[i] = " "

\* C4.  Standard mode is idempotent: normalising the returned string again
\* returns it unchanged.
StandardIdempotent ==
    (Returned /\ IsString /\ mode = "standard") =>
        process_brand_for_search(Str(ret), "standard") = ret

IsAscii(c) ==
    c \in AZ \cup UpperAZ \cup D09 \cup {".", "-", "&", ",", " ", "\t", "_"}

AsciiInput ==
    IsString /\ \A i \in 1..Len(brand_name.val) : IsAscii(brand_name.val[i])

\* C6.  For an ASCII input, the upper-cased, the lower-cased and the original
\* input give the same result, in each mode.
CaseInsensitive ==
    (Returned /\ AsciiInput /\ mode \in {"standard", "alphanumeric"}) =>
        /\ process_brand_for_search(Str(str_upper(brand_name.val)), mode) = ret
        /\ process_brand_for_search(Str(str_lower(brand_name.val)), mode) = ret

\* A mixed-case ASCII input that returned a non-empty result
MixedCaseReturned ==
    /\ Returned /\ AsciiInput /\ mode = "standard"
    /\ \E i, j \in 1..Len(brand_name.val) :
          brand_name.val[i] \in UpperAZ /\ brand_name.val[j] \in AZ
    /\ ret # <<>>

InLowerAlnum(c) ==
    c \in {"a","b","c","d","e","f","g","h","i","j","k","l","m","n","o","p",
           "q","r","s","t","u","v","w","x","y","z",
           "0","1","2","3","4","5","6","7","8","9"}

\* C7.  The alphanumeric result is the standard result of the same input with
\* every character outside [a-z0-9] deleted; any other mode returns the
\* standard result, which is the whitespace-collapsed output of the filter.
ModesAreProjection ==
    (Returned /\ IsString) =>
        LET standard == process_brand_for_search(brand_name, "standard") IN
        IF mode = "alphanumeric"
        THEN ret = SelectSeq(standard, InLowerAlnum)
        ELSE ret = standard /\ ret = result

\* An alphanumeric call whose standard result holds a space and a character
\* that the projection deletes
ProjectionDeletes ==
    /\ Returned /\ IsString /\ mode = "alphanumeric"
    /\ ret # <<>>
    /\ LET standard == process_brand_for_search(brand_name, "standard") IN
       /\ \E i \in 1..Len(standard) : standard[i] = " "
       /\ Len(ret) < Len(standard)

IsModelNumberToken(t) ==
    \E k \in 0..Len(t) : \E m \in 1..Len(t) :
        /\ k + m <= Len(t)
        /\ \A i \in 1..k : t[i] \in AZ
        /\ \A i \in (k+1)..(k+m) : t[i] \in D09
        /\ \A i \in (k+m+1)..Len(t) : t[i] \in AZ \cup D09

Retained(t) ==
    \/ t \notin common_terms
    \/ t \in preserved_terms
    \/ IsModelNumberToken(t)

\* C8.  The filter keeps, in order and with duplicates, exactly the tokens t
\* with t not in Stopwords, or t in Preserved-terms, or t of the shape
\* letters* digits+ alphanumerics*; the standard result is these tokens
\* joined by single spaces.
FilterIsSelection ==
    (IsString /\ pc \in {"whitespace", "mode", "done"}) =>
        /\ filtered_words = SelectSeq(words, Retained)
        /\ (Returned /\ mode = "standard") => ret = str_join(SelectSeq(words, Retained))

\* A word of its own: a maximal run of letters between whitespace,
\* punctuation or the ends of the string
IsLetter(c) == c \in AZ \cup UpperAZ

IsWordBreak(c) == IsSpace(c) \/ c \in {".", "-", "&", ","}

StandaloneWord(s, i, j) ==
    /\ 1 <= i /\ i <= j /\ j <= Len(s)
    /\ \A k \in i..j : IsLetter(s[k])
    /\ i = 1 \/ IsWordBreak(s[i-1])
    /\ j = Len(s) \/ IsWordBreak(s[j+1])

IsTokenOf(p, r) ==
    \E a \in 1..Len(r) :
        LET b == a + Len(p) - 1 IN
        /\ b <= Len(r)
        /\ SubSeq(r, a, b) = p
        /\ a = 1 \/ r[a-1] = " "
        /\ b = Len(r) \/ r[b+1] = " "

\* The string that abbreviation collapse receives (lines 30-34)
Folded(s) == strip_combining(nfkd(str_lower(s)))

\* The dot at position k of the input is deleted by abbreviation collapse
DotRemoved(s, k) ==
    /\ 1 <= k /\ k <= Len(s)
    /\ s[k] = "."
    /\ Len(Folded(SubSeq(s, 1, k))) \in deleted_dots(Folded(s))

LettersDotDigits(s, i, e) ==
    \E j \in i..(e-2) :
        /\ \A k \in i..j : s[k] \in AZ
        /\ s[j+1] = "."
        /\ \A k \in (j+2)..e : s[k] \in D09
        /\ e = Len(s) \/ s[e+1] \notin D09

LetterDotLetterDot(s, i, e) ==
    /\ e = i + 3 /\ 1 <= i /\ e <= Len(s)
    /\ s[i] \in AZ /\ s[i+1] = "." /\ s[i+2] \in AZ /\ s[i+3] = "."

PatternMatches(s) ==
    { m \in (1..Len(s)) \X (1..Len(s)) :
        LettersDotDigits(s, m[1], m[2]) \/ LetterDotLetterDot(s, m[1], m[2]) }

LeftmostNonOverlapping(s, S) ==
    /\ \A m, n \in S : m # n => (m[2] < n[1] \/ n[2] < m[1])
    /\ \A c \in PatternMatches(s) : \E m \in S : m[1] <= c[1] /\ c[1] <= m[2]

DotsInMatches(s) ==
    LET S == CHOOSE S \in SUBSET PatternMatches(s) : LeftmostNonOverlapping(s, S)
    IN { k \in 1..Len(s) : s[k] = "." /\ \E m \in S : m[1] <= k /\ k <= m[2] }

\* s without the positions in D
Without(s, D) ==
    LET Kept(k) == k \notin D
        ks == SelectSeq([k \in 1..Len(s) |-> k], Kept)
    IN [n \in 1..Len(ks) |-> s[ks[n]]]

\* The dot at k ends a chain of n letter-dot pairs that no pair precedes
\* and no pair follows
EndsChain(s, k, n) ==
    /\ n >= 1 /\ k >= 2 * n
    /\ \A u \in 0..(n-1) : s[k - 2*u] = "." /\ s[k - 2*u - 1] \in AZ
    /\ ~(k - 2*n >= 2 /\ s[k - 2*n] = "." /\ s[k - 2*n - 1] \in AZ)
    /\ ~(k + 2 <= Len(s) /\ s[k+1] \in AZ /\ s[k+2] = ".")

IsDigitAt(s, k) == 1 <= k /\ k <= Len(s) /\ s[k] \in D09

IsLowerAt(s, k) == 1 <= k /\ k <= Len(s) /\ s[k] \in AZ

IsDotAt(s, k) == 1 <= k /\ k <= Len(s) /\ s[k] = "."

\* C9 as stated, the part that fails.  A dot after a word of two or more
\* letters that no digit follows is not deleted by abbreviation collapse
\* and so splits tokens.
DotAfterWordStays ==
    pc = "punct" =>
        LET s == Folded(brand_name.val) IN
        \A k \in 1..Len(s) :
            (IsDotAt(s, k) /\ IsLowerAt(s, k-1) /\ IsLowerAt(s, k-2) /\ ~IsDigitAt(s, k+1))
                => k \notin deleted_dots(s)

\* C9, amended.  Abbreviation collapse runs before punctuation-to-space and
\* deletes exactly the dots inside the leftmost non-overlapping matches of
\* the two patterns; every other dot stays and becomes a space in the next
\* step.  A dot between a letter and a digit goes, and so do both dots of a
\* two-pair chain.  A dot after a word of two or more letters stays when
\* neither a digit nor a letter and a dot follow it, a dot between two
\* digits stays, and the last dot of an odd chain stays when no digit
\* follows it.
AbbreviationCollapse ==
    LET s == Folded(brand_name.val)
        D == deleted_dots(s)
        x == Without(s, D)
    IN
    /\ (IsString /\ pc = "punct") =>
        /\ D = DotsInMatches(s)
        /\ result = x
        /\ \A k \in 1..Len(s) :
            /\ (IsDotAt(s, k) /\ IsLowerAt(s, k-1) /\ IsDigitAt(s, k+1)) => k \in D
            /\ (LetterDotLetterDot(s, k, k+3) /\ EndsChain(s, k+3, 2))
                  => (k+1 \in D /\ k+3 \in D)
            /\ ( /\ IsDotAt(s, k) /\ IsLowerAt(s, k-1) /\ IsLowerAt(s, k-2)
                 /\ ~IsDigitAt(s, k+1)
                 /\ ~(IsLowerAt(s, k+1) /\ IsDotAt(s, k+2)) ) => k \notin D
            /\ (IsDotAt(s, k) /\ IsDigitAt(s, k-1) /\ IsDigitAt(s, k+1)) => k \notin D
            /\ \A n \in 1..Len(s) :
                  (n % 2 = 1 /\ IsDotAt(s, k) /\ EndsChain(s, k, n) /\ ~IsDigitAt(s, k+1))
                      => k \notin D
    /\ (IsString /\ pc = "filter") =>
        /\ Len(result) = Len(x)
        /\ \A n \in 1..Len(x) :
              result[n] = (IF x[n] = "." THEN " " ELSE x[n])

\* "o.o.o." or the like has been collapsed and split: an odd chain of three
\* pairs whose last dot became a space
OddChainSplit ==
    /\ IsString /\ pc = "filter"
    /\ LET s == Folded(brand_name.val) IN
       \E k \in 1..Len(s) :
          /\ EndsChain(s, k, 3)
          /\ k \notin deleted_dots(s)
          /\ k - 2 \in deleted_dots(s)
    /\ \E n \in 1..Len(result) : result[n] = " "

NotStopword(t) == str_lower(t) \notin common_terms

\* C10.  The lexicons are disjoint and no stopword holds a digit, so no token
\* of the standard result is a stopword, and the filter keeps exactly the
\* words that are not stopwords.
NoStopwordSurvives ==
    /\ common_terms \cap preserved_terms = {}
    /\ \A t \in common_terms : \A i \in 1..Len(t) : t[i] \notin D09
    /\ (IsString /\ pc \in {"whitespace", "mode", "done"}) =>
          filtered_words = SelectSeq(words, NotStopword)
    /\ (Returned /\ IsString /\ mode = "standard") =>
          \A t \in common_terms : ~IsTokenOf(t, ret)

\* "o.F. 2" or the like: a stopword that case folding and abbreviation
\* collapse brought into existence was dropped, another token was returned
CreatedStopwordDropped ==
    /\ Returned /\ IsString /\ mode = "standard"
    /\ \E t \in Range(words) : t \in common_terms
    /\ \A t \in common_terms : ~IsTokenOf(t, brand_name.val)
    /\ \E k \in 1..Len(brand_name.val) : DotRemoved(brand_name.val, k)
    /\ \E k \in 1..Len(brand_name.val) : brand_name.val[k] \in UpperAZ
    /\ ret # <<>>
====
